---------------------------- MODULE Spec2Model ----------------------------
(***************************************************************************)
(* A model of src/main.py: an MCP server exposing four MongoDB read tools  *)
(* (list_collections, query_collection, count_documents,                   *)
(* get_collection_stats) over one client opened by app_lifespan.           *)
(*                                                                         *)
(* The MongoDB driver and server are the environment.  What the model      *)
(* takes from the driver's documented behaviour is stated where used:      *)
(*   - MongoClient(uri) parses the URI and returns without connecting; it  *)
(*     raises only for a malformed URI;                                    *)
(*   - client[name] and db[name] raise InvalidName for an illegal name;    *)
(*   - a cursor is lazy: find/sort/skip/limit only record the request,     *)
(*     list(cursor) runs it; the server sorts, then skips, then limits;    *)
(*   - limit(0) means "no limit"; a negative limit n returns at most -n;   *)
(*   - skip(n) raises ValueError for n < 0.                                *)
(***************************************************************************)
EXTENDS Integers, Sequences, FiniteSets

\* ----------------------------------------------------------------- bounds
MaxDocs  == 3    \* most documents the collection "items" holds
MaxLimit == 2    \* largest limit a caller passes
MaxSkip  == 1    \* largest skip a caller passes

\* The concurrent callers of the server (tasks the framework runs handlers in).
Tasks == {"t1", "t2"}

\* ------------------------------------------------------------ environment
\* Values the process environment can give the two settings (lines 18-19).
UriValues == {"mongodb://localhost:27017", "not-a-uri"}
DbNameValues == {"mcp-server-demo", "bad.name"}

\* MongoClient(uri) accepts a URI only with a mongodb scheme.
ValidUri(u) == u = "mongodb://localhost:27017"
\* Database and collection names: empty or containing "." / "$" is illegal.
ValidDbName(n) == n = "mcp-server-demo"
ValidCollName(n) == n \in {"items", "missing"}

\* The i-th document ever inserted in "items".  With three documents the
\* values of a are 3, 1, 2 in insertion order; b repeats, so sorts on b tie.
Doc(i) == [id |-> i, a |-> ((i + 1) % 3) + 1, b |-> (i % 2) + 1]

\* Stored documents of a collection, in natural (insertion) order.
Stored(n, coll) == IF coll = "items" THEN [i \in 1..n |-> Doc(i)] ELSE << >>

\* ------------------------------------------------------------ small helpers
Min(x, y) == IF x < y THEN x ELSE y
Max(x, y) == IF x < y THEN y ELSE x
Abs(x) == IF x < 0 THEN -x ELSE x

RECURSIVE SelectSeq2(_, _)
\* The subsequence of s whose documents match the filter items f.
SelectSeq2(s, f) ==
  IF s = << >> THEN << >>
  ELSE LET d == Head(s)
           ok == \A k \in 1..Len(f) :
                   (IF f[k][1] = "a" THEN d.a ELSE d.b) = f[k][2]
       IN (IF ok THEN << d >> ELSE << >>) \o SelectSeq2(Tail(s), f)

Field(d, name) == IF name = "a" THEN d.a ELSE d.b

RECURSIVE Cmp(_, _, _)
\* Compare two documents by the (field, direction) pairs in order:
\* -1 when d1 comes first, 1 when d2 comes first, 0 on a tie.
Cmp(d1, d2, pairs) ==
  IF pairs = << >> THEN 0
  ELSE LET f == Head(pairs)[1]
           dir == Head(pairs)[2]
       IN IF Field(d1, f) = Field(d2, f) THEN Cmp(d1, d2, Tail(pairs))
          ELSE IF Field(d1, f) < Field(d2, f) THEN -dir ELSE dir

Perms(n) == {p \in [1..n -> 1..n] : \A i, j \in 1..n : i # j => p[i] # p[j]}

\* The orders in which the server may return the documents s for an
\* ordering: natural order without one, else any order the pairs allow.
Orderings(s, pairs) ==
  IF pairs = << >> THEN {s}
  ELSE {[i \in 1..Len(s) |-> s[p[i]]] : p \in
          {q \in Perms(Len(s)) :
             \A i, j \in 1..Len(s) : i < j => Cmp(s[q[i]], s[q[j]], pairs) <= 0}}


\* ------------------------------------------------------- call arguments
\* A filter document: a dict of field = value items, or a value of a wrong
\* type (a string) that find() and count_documents() reject.
EmptyFilter == [type |-> "dict", items |-> << >>]
FilterB2 == [type |-> "dict", items |-> << <<"b", 2>> >>]
BadFilter == [type |-> "str", items |-> << >>]

\* Optional[Dict]: some = FALSE is None.
NoProjection == [some |-> FALSE, fields |-> {}]
ProjectA == [some |-> TRUE, fields |-> {"a"}]

NoSort == [some |-> FALSE, items |-> << >>]
EmptySort == [some |-> TRUE, items |-> << >>]
SortAAsc == [some |-> TRUE, items |-> << <<"a", 1>> >>]
SortADesc == [some |-> TRUE, items |-> << <<"a", -1>> >>]
SortBAscADesc == [some |-> TRUE, items |-> << <<"b", 1>>, <<"a", -1>> >>]
SortBadDir == [some |-> TRUE, items |-> << <<"a", 0>> >>]

\* query_collection's defaults (lines 63-66).
DefaultLimit == 10
DefaultSkip == 0
DefaultArgs ==
  [collection |-> "items", query |-> EmptyFilter, projection |-> NoProjection,
   limit |-> DefaultLimit, skip |-> DefaultSkip, sort |-> NoSort]

\* The argument records a caller passes to query_collection.
QueryArgs ==
  [collection : {"items"}, query : {EmptyFilter, FilterB2},
   projection : {NoProjection}, limit : 0..MaxLimit, skip : 0..MaxSkip,
   sort : {NoSort, SortAAsc, SortBAscADesc}]
  \cup {[DefaultArgs EXCEPT !.collection = c] : c \in {"missing", ""}}
  \cup {[DefaultArgs EXCEPT !.query = BadFilter],
        [DefaultArgs EXCEPT !.projection = ProjectA],
        [DefaultArgs EXCEPT !.limit = -1],
        [DefaultArgs EXCEPT !.skip = -1],
        [DefaultArgs EXCEPT !.sort = EmptySort],
        [DefaultArgs EXCEPT !.sort = SortADesc],
        [DefaultArgs EXCEPT !.sort = SortBadDir],
        DefaultArgs}

\* The argument records a caller passes to count_documents.
CountArgs ==
  {[DefaultArgs EXCEPT !.collection = c, !.query = q] :
     c \in {"items", "missing", ""}, q \in {EmptyFilter, FilterB2, BadFilter}}

\* The argument records a caller passes to get_collection_stats.
StatsArgs == {[DefaultArgs EXCEPT !.collection = c] : c \in {"items", "missing", ""}}

\* ------------------------------------------------------------- results
\* What a handler hands back to the framework: a returned value (a Python
\* list or int, or a JSON text of one of three shapes) or a raised fault.
NoResult == [status |-> "none", kind |-> "none", error |-> "", body |-> << >>]
Returned(kind, body) == [status |-> "returned", kind |-> kind, error |-> "", body |-> body]
Raised(exc) == [status |-> "raised", kind |-> "fault", error |-> exc, body |-> << >>]
\* json.dumps({"error": str(e)})
ErrorPayload(exc) == [status |-> "returned", kind |-> "json_error", error |-> exc, body |-> << >>]

\* json_util.default: an ObjectId becomes {"$oid": ...}; numbers are kept.
json_util_default(d) == [id |-> <<"$oid", d.id>>, a |-> d.a, b |-> d.b]
\* json.dumps(results, default=json_util.default) of a list of documents.
json_dumps(docs) == [i \in 1..Len(docs) |-> json_util_default(docs[i])]

\* A projection keeps _id and the named fields; 0 stands for "field absent".
Project(d, proj) ==
  IF proj.some
    THEN [id |-> d.id, a |-> IF "a" \in proj.fields THEN d.a ELSE 0,
          b |-> IF "b" \in proj.fields THEN d.b ELSE 0]
    ELSE d

\* What a round trip to the server can do: answer, or fail.  A client whose
\* server is unreachable fails every round trip after server selection.
DriverOutcomes(reachable) ==
  IF reachable THEN {"ok", "AutoReconnect"} ELSE {"ServerSelectionTimeoutError"}

\* ------------------------------------------------------------- cursors
NoCursor ==
  [collection |-> "", filter |-> EmptyFilter, projection |-> NoProjection,
   ordering |-> << >>, skip |-> 0, limit |-> 0]

\* db[collection].find(filter=query, projection=projection), lines 82-85:
\* a fresh cursor with no ordering, skip 0 and limit 0 (no limit).
Find(collection, query, projection) ==
  [collection |-> collection, filter |-> query, projection |-> projection,
   ordering |-> << >>, skip |-> 0, limit |-> 0]

CursorSort_Never(cursor, sort) == cursor

\* if sort: cursor = cursor.sort(list(sort.items())), lines 87-88.  None and
\* the empty mapping are falsy; list(sort.items()) keeps the mapping's order.
CursorSort(cursor, sort) ==
  IF sort.some /\ sort.items # << >>
    THEN [cursor EXCEPT !.ordering = sort.items]
    ELSE cursor

CursorSkipLimit_NoSkip(cursor, skip, limit) ==
  [cursor EXCEPT !.limit = limit]

CursorSkipLimit_OffByOne(cursor, skip, limit) ==
  [cursor EXCEPT !.skip = skip, !.limit = limit + 1]

\* cursor.skip(skip).limit(limit), line 90.
CursorSkipLimit(cursor, skip, limit) ==
  [cursor EXCEPT !.skip = skip, !.limit = limit]

\* The exception lines 82-90 raise before any round trip, or "none".
BuildError(args) ==
  IF ~ValidCollName(args.collection) THEN "InvalidName"
  ELSE IF args.query.type # "dict" THEN "TypeError"
  ELSE IF args.skip < 0 THEN "ValueError"
  ELSE "none"

\* Lines 82-90 when nothing raises: the cursor query_collection builds.
BuildCursor(args) ==
  CursorSkipLimit(
    CursorSort(Find(args.collection, args.query, args.projection), args.sort),
    args.skip, args.limit)

\* The server's answer to a cursor: skip the first `skip` documents of the
\* ordered match, then keep `limit` of them (all for 0, -limit for limit < 0).
Page(s, skip, limit) ==
  LET rest == SubSeq(s, skip + 1, Len(s))
  IN IF limit = 0 THEN rest ELSE SubSeq(rest, 1, Min(Abs(limit), Len(rest)))

\* A sort direction other than 1 or -1 is refused by the server.
BadOrdering(pairs) == \E k \in 1..Len(pairs) : pairs[k][2] \notin {1, -1}

\* list(cursor), line 91: every document list the server may answer with.
Fetch(db, n, cursor) ==
  LET match == SelectSeq2(IF ValidDbName(db) THEN Stored(n, cursor.collection) ELSE << >>,
                          cursor.filter.items)
  IN {[i \in 1..Len(Page(o, cursor.skip, cursor.limit)) |->
         Project(Page(o, cursor.skip, cursor.limit)[i], cursor.projection)] :
        o \in Orderings(match, cursor.ordering)}

\* ------------------------------------------------------- handler results
QueryExcept_Reraise(exc) == Raised(exc)

\* except Exception as e: return json.dumps({"error": str(e)}), lines 95-96.
QueryExcept(exc) == ErrorPayload(exc)

\* except Exception as e: return json.dumps({"error": str(e)}), lines 124-125.
StatsExcept(exc) == ErrorPayload(exc)

\* Lines 91-96 of query_collection for a round trip's outcome and answer.
query_collection_result(cursor, outcome, docs) ==
  IF outcome # "ok" THEN QueryExcept(outcome)
  ELSE IF BadOrdering(cursor.ordering) THEN QueryExcept("OperationFailure")
  ELSE Returned("json_array", json_dumps(docs))

list_collections_result_Caught(db, outcome) ==
  IF outcome # "ok" THEN ErrorPayload(outcome)
  ELSE Returned("list", IF ValidDbName(db) THEN << "items" >> ELSE << >>)

\* return db.list_collection_names(), line 55: no try around the call.
list_collections_result(db, outcome) ==
  IF outcome # "ok" THEN Raised(outcome)
  ELSE Returned("list", IF ValidDbName(db) THEN << "items" >> ELSE << >>)

\* return db[collection].count_documents(query), line 109: no try.
count_documents_result(db, n, args, outcome) ==
  IF ~ValidCollName(args.collection) THEN Raised("InvalidName")
  ELSE IF args.query.type # "dict" THEN Raised("TypeError")
  ELSE IF outcome # "ok" THEN Raised(outcome)
  ELSE Returned("int",
         << Len(SelectSeq2(IF ValidDbName(db) THEN Stored(n, args.collection) ELSE << >>,
                           args.query.items)) >>)

\* Lines 121-125: collStats of a collection that does not exist is refused.
get_collection_stats_result(db, n, args, outcome) ==
  IF outcome # "ok" THEN StatsExcept(outcome)
  ELSE IF args.collection # "items" \/ ~ValidDbName(db) THEN StatsExcept("OperationFailure")
  ELSE Returned("json_object", << [ns |-> args.collection, count |-> n] >>)

\* ---------------------------------------------------------------- state
VARIABLES
  MONGODB_URI,        \* line 18
  MONGODB_DATABASE,   \* line 19
  server,             \* the MongoDB server: is it reachable, what it stores
  lifespan_pc,        \* where app_lifespan stands
  trigger,            \* what ended serving: "none", "normal", "exception"
  client,             \* the MongoClient: how often created, closed, its topology closed
  ctx,                \* the AppContext app_lifespan yielded
  calls,              \* per task: the tool call it runs
  cursors             \* per cursor slot: the cursor query_collection built

vars == << MONGODB_URI, MONGODB_DATABASE, server, lifespan_pc, trigger, client,
           ctx, calls, cursors >>

NoContext == [client |-> "none", db |-> ""]
\* AppContext(client=client, db=db), lines 22-27 and 36.
AppContext(c, db) == [client |-> c, db |-> db]

IdleCall ==
  [pc |-> "idle", op |-> "none", args |-> DefaultArgs, db |-> "", open |-> FALSE,
   result |-> NoResult]

\* The handle a handler works on is open: created, and nothing closed yet.
HandleOpen == client.created = 1 /\ client.closed = 0 /\ client.topology_closed = 0

CursorSlot_Shared(t) == "t1"

\* cursor is a local of query_collection (line 82): one per call.
CursorSlot(t) == t

Init ==
  /\ MONGODB_URI \in UriValues
  /\ MONGODB_DATABASE \in DbNameValues
  /\ server \in [reachable : BOOLEAN, ndocs : 0..MaxDocs]
  /\ lifespan_pc = "start"
  /\ trigger = "none"
  /\ client = [created |-> 0, closed |-> 0, topology_closed |-> 0]
  /\ ctx = NoContext
  /\ calls = [t \in Tasks |-> IdleCall]
  /\ cursors = [t \in Tasks |-> NoCursor]

\* ---------------------------------------------------------- app_lifespan
MongoClientOutcome_Lenient(uri) == "ok"

\* MongoClient(MONGODB_URI), line 33: parses the URI, starts no round trip.
MongoClientOutcome(uri) == IF ValidUri(uri) THEN "ok" ELSE "InvalidURI"

\* client = MongoClient(MONGODB_URI), line 33; a raise leaves the generator.
lifespan_create_client ==
  /\ lifespan_pc = "start"
  /\ IF MongoClientOutcome(MONGODB_URI) = "ok"
       THEN /\ client' = [client EXCEPT !.created = @ + 1]
            /\ lifespan_pc' = "client"
       ELSE /\ client' = client
            /\ lifespan_pc' = "aborted"
  /\ UNCHANGED << MONGODB_URI, MONGODB_DATABASE, server, trigger, ctx, calls, cursors >>

\* db = client[MONGODB_DATABASE], line 34, before the try of line 35: a raise
\* (InvalidName) leaves the generator without reaching the finally.
lifespan_select_db ==
  /\ lifespan_pc = "client"
  /\ lifespan_pc' = IF ValidDbName(MONGODB_DATABASE) THEN "db" ELSE "aborted"
  /\ UNCHANGED << MONGODB_URI, MONGODB_DATABASE, server, trigger, client, ctx, calls,
                  cursors >>

lifespan_yield_AfterClose ==
  /\ lifespan_pc = "db"
  /\ lifespan_pc' = "serving"
  /\ client' = [client EXCEPT !.closed = @ + 1]
  /\ ctx' = AppContext("client", MONGODB_DATABASE)
  /\ UNCHANGED << MONGODB_URI, MONGODB_DATABASE, server, trigger, calls, cursors >>

\* yield AppContext(client=client, db=db), lines 35-36: serving starts.
lifespan_yield ==
  /\ lifespan_pc = "db"
  /\ lifespan_pc' = "serving"
  /\ ctx' = AppContext("client", MONGODB_DATABASE)
  /\ UNCHANGED << MONGODB_URI, MONGODB_DATABASE, server, trigger, client, calls, cursors >>

\* Control comes back to the generator at the yield of line 36, by a normal
\* resume or by an exception thrown in, once the serving scope has ended:
\* the handlers are plain functions (lines 52, 59, 100, 113), so none is
\* suspended half way, and every request of the scope has been answered.
lifespan_resume(cause) ==
  /\ lifespan_pc = "serving"
  /\ \A t \in Tasks : calls[t].pc = "idle"
  /\ lifespan_pc' = "finally"
  /\ trigger' = cause
  /\ UNCHANGED << MONGODB_URI, MONGODB_DATABASE, server, client, ctx, calls, cursors >>

\* client.close(), line 38.
lifespan_close_client ==
  /\ lifespan_pc = "finally"
  /\ client' = [client EXCEPT !.closed = @ + 1]
  /\ lifespan_pc' = "topology"
  /\ UNCHANGED << MONGODB_URI, MONGODB_DATABASE, server, trigger, ctx, calls, cursors >>

\* client._topology.close(), line 40.
lifespan_close_topology ==
  /\ lifespan_pc = "topology"
  /\ client' = [client EXCEPT !.topology_closed = @ + 1]
  /\ lifespan_pc' = "exited"
  /\ UNCHANGED << MONGODB_URI, MONGODB_DATABASE, server, trigger, ctx, calls, cursors >>

\* ------------------------------------------------------------- handlers
\* A call is dispatched with the context the lifespan yielded.
Dispatchable(t) == lifespan_pc = "serving" /\ calls[t].pc = "idle"

Running(t, op) == calls[t].pc = "running" /\ calls[t].op = op

Started(op, args) ==
  [pc |-> "running", op |-> op, args |-> args, db |-> ctx.db, open |-> HandleOpen,
   result |-> NoResult]

Finished(call, result) ==
  [call EXCEPT !.pc = "done", !.open = @ /\ HandleOpen, !.result = result]

Unchanged_env ==
  UNCHANGED << MONGODB_URI, MONGODB_DATABASE, server, lifespan_pc, trigger, client, ctx >>

\* db = ctx.request_context.lifespan_context.db, line 54.
list_collections_call(t) ==
  /\ Dispatchable(t)
  /\ calls' = [calls EXCEPT ![t] = Started("list_collections", DefaultArgs)]
  /\ UNCHANGED cursors
  /\ Unchanged_env

\* return db.list_collection_names(), line 55.
list_collections_return(t) ==
  /\ Running(t, "list_collections")
  /\ \E o \in DriverOutcomes(server.reachable) :
       calls' = [calls EXCEPT ![t] =
                   Finished(@, list_collections_result(calls[t].db, o))]
  /\ UNCHANGED cursors
  /\ Unchanged_env

\* Lines 79-90: read the handle and build the cursor; what raises here is
\* caught by the except of line 95 and ends the call.
query_collection_call(t, args) ==
  /\ Dispatchable(t)
  /\ IF BuildError(args) # "none"
       THEN /\ calls' = [calls EXCEPT ![t] =
                           Finished(Started("query_collection", args),
                                    QueryExcept(BuildError(args)))]
            /\ UNCHANGED cursors
       ELSE /\ calls' = [calls EXCEPT ![t] = Started("query_collection", args)]
            /\ cursors' = [cursors EXCEPT ![CursorSlot(t)] = BuildCursor(args)]
  /\ Unchanged_env

\* Lines 91-96: run the cursor, encode the documents or the exception.
query_collection_fetch(t) ==
  /\ Running(t, "query_collection")
  /\ \E o \in DriverOutcomes(server.reachable) :
       \E docs \in Fetch(calls[t].db, server.ndocs, cursors[CursorSlot(t)]) :
         calls' = [calls EXCEPT ![t] =
                     Finished(@, query_collection_result(cursors[CursorSlot(t)], o, docs))]
  /\ cursors' = [cursors EXCEPT ![CursorSlot(t)] = NoCursor]
  /\ Unchanged_env

\* db = ctx.request_context.lifespan_context.db, line 108.
count_documents_call(t, args) ==
  /\ Dispatchable(t)
  /\ calls' = [calls EXCEPT ![t] = Started("count_documents", args)]
  /\ UNCHANGED cursors
  /\ Unchanged_env

\* return db[collection].count_documents(query), line 109.
count_documents_return(t) ==
  /\ Running(t, "count_documents")
  /\ \E o \in DriverOutcomes(server.reachable) :
       calls' = [calls EXCEPT ![t] =
                   Finished(@, count_documents_result(calls[t].db, server.ndocs,
                                                       calls[t].args, o))]
  /\ UNCHANGED cursors
  /\ Unchanged_env

\* db = ctx.request_context.lifespan_context.db, line 120.
get_collection_stats_call(t, args) ==
  /\ Dispatchable(t)
  /\ calls' = [calls EXCEPT ![t] = Started("get_collection_stats", args)]
  /\ UNCHANGED cursors
  /\ Unchanged_env

\* Lines 121-125.
get_collection_stats_return(t) ==
  /\ Running(t, "get_collection_stats")
  /\ \E o \in DriverOutcomes(server.reachable) :
       calls' = [calls EXCEPT ![t] =
                   Finished(@, get_collection_stats_result(calls[t].db, server.ndocs,
                                                            calls[t].args, o))]
  /\ UNCHANGED cursors
  /\ Unchanged_env

\* The framework sends the handler's result (or its fault) to the caller;
\* the task is free for the next call.
respond(t) ==
  /\ calls[t].pc = "done"
  /\ calls' = [calls EXCEPT ![t] = IdleCall]
  /\ UNCHANGED cursors
  /\ Unchanged_env

Next ==
  \/ lifespan_create_client
  \/ lifespan_select_db
  \/ lifespan_yield
  \/ \E cause \in {"normal", "exception"} : lifespan_resume(cause)
  \/ lifespan_close_client
  \/ lifespan_close_topology
  \/ \E t \in Tasks : list_collections_call(t)
  \/ \E t \in Tasks : list_collections_return(t)
  \/ \E t \in Tasks : \E args \in QueryArgs : query_collection_call(t, args)
  \/ \E t \in Tasks : query_collection_fetch(t)
  \/ \E t \in Tasks : \E args \in CountArgs : count_documents_call(t, args)
  \/ \E t \in Tasks : count_documents_return(t)
  \/ \E t \in Tasks : \E args \in StatsArgs : get_collection_stats_call(t, args)
  \/ \E t \in Tasks : get_collection_stats_return(t)
  \/ \E t \in Tasks : respond(t)

Spec == Init /\ [][Next]_vars

\* ================================================================ claims
Terminated == lifespan_pc \in {"exited", "aborted"}
Done(t, op) == calls[t].pc = "done" /\ calls[t].op = op
\* A query_collection call that came back with a list of documents.
Answered(t) == Done(t, "query_collection") /\ calls[t].result.kind = "json_array"

\* C1: every tool call starts after app_lifespan has acquired the handle and
\* ends before app_lifespan starts releasing it: a running handler implies
\* the lifespan is at its yield with the handle open, a handler has seen the
\* handle open from its first to its last step, and no call exists before
\* the yield or after the finally started.
C1_CallsInsideLifespan ==
  \A t \in Tasks :
    /\ calls[t].pc = "running" =>
         lifespan_pc = "serving" /\ HandleOpen /\ ctx = AppContext("client", MONGODB_DATABASE)
    /\ calls[t].pc \in {"running", "done"} => calls[t].open /\ calls[t].db = MONGODB_DATABASE
    /\ lifespan_pc # "serving" => calls[t].pc = "idle"

C1_Witness ==
  \E t \in Tasks : calls[t].pc = "done" /\ calls[t].open /\ lifespan_pc = "serving"

\* C2: at most one client is ever created, and once the lifespan is over a
\* created client has been closed exactly once and its topology exactly once.
C2_OneHandleClosedOnce ==
  /\ client.created <= 1 /\ client.closed <= 1 /\ client.topology_closed <= 1
  /\ Terminated /\ client.created = 1 =>
       client.closed = 1 /\ client.topology_closed = 1

\* C3: on every exit path of app_lifespan (normal shutdown, an exception
\* while serving, a raise during acquisition) a created client was closed.
C3_ReleaseOnEveryExit ==
  Terminated /\ client.created > 0 => client.closed > 0

\* C4 as stated: when the server cannot be reached, serving never starts and
\* no tool call is dispatched.
C4_UnreachableIsFatal ==
  ~server.reachable =>
    lifespan_pc # "serving" /\ \A t \in Tasks : calls[t].pc = "idle"

\* C4 amended: a raise while acquiring the handle (MongoClient refusing the
\* URI, client[...] refusing the database name) is fatal and not retried:
\* the lifespan never yields and no call is dispatched; with an unreachable
\* server the lifespan does yield and every dispatched call fails by itself.
C4_AcquisitionRaiseIsFatal ==
  /\ ~ValidUri(MONGODB_URI) \/ ~ValidDbName(MONGODB_DATABASE) =>
       /\ lifespan_pc \in {"start", "client", "aborted"}
       /\ ctx = NoContext
       /\ client.created <= 1
       /\ \A t \in Tasks : calls[t].pc = "idle"
  /\ ~server.reachable =>
       \A t \in Tasks : calls[t].pc = "done" => calls[t].result.kind \in {"json_error", "fault"}

C4_Witness == lifespan_pc = "aborted" /\ client.created = 0 /\ ~ValidUri(MONGODB_URI)

\* A call of query_collection or get_collection_stats in which something raises.
Failing(call) ==
  \/ ~server.reachable
  \/ call.op = "query_collection" /\ BuildError(call.args) # "none"
  \/ call.op = "query_collection" /\ call.args.sort = SortBadDir
  \/ call.op = "get_collection_stats" /\ call.args.collection # "items"

\* C5: query_collection and get_collection_stats always return, never raise,
\* and when anything raised inside them the value returned is the JSON
\* object {"error": <message>}.
C5_ErrorsReturnedInBand ==
  \A t \in Tasks :
    calls[t].pc = "done" /\ calls[t].op \in {"query_collection", "get_collection_stats"} =>
      /\ calls[t].result.status = "returned"
      /\ calls[t].result.kind \in {"json_array", "json_object", "json_error"}
      /\ Failing(calls[t]) => calls[t].result.kind = "json_error" /\ calls[t].result.error # ""
      /\ calls[t].result.kind = "json_error" => calls[t].result.body = << >>

C5_Witness ==
  /\ \E t \in Tasks : Done(t, "query_collection") /\ calls[t].result.error = "TypeError"
  /\ \E t \in Tasks : Done(t, "get_collection_stats") /\ calls[t].result.error = "OperationFailure"

\* C6: list_collections and count_documents let every exception out as a
\* fault and never return an {"error": ...} payload; an in-band error payload
\* comes only from query_collection and get_collection_stats.
C6_FaultsPropagate ==
  \A t \in Tasks :
    /\ calls[t].pc = "done" /\ calls[t].op \in {"list_collections", "count_documents"} =>
         /\ calls[t].result.kind \in {"list", "int", "fault"}
         /\ ~server.reachable => calls[t].result.status = "raised"
         /\ calls[t].op = "count_documents" /\ calls[t].args.query = BadFilter =>
              calls[t].result.status = "raised"
    /\ calls[t].pc = "done" /\ calls[t].result.kind = "json_error" =>
         calls[t].op \in {"query_collection", "get_collection_stats"}

C6_Witness ==
  /\ \E t \in Tasks : Done(t, "list_collections") /\ calls[t].result.status = "raised"
  /\ \E t \in Tasks : Done(t, "count_documents") /\ calls[t].result.status = "raised"

AValues(body) == [i \in 1..Len(body) |-> Doc(body[i].id[2]).a]

\* C8: an answered query with a sort mapping lists its documents in the
\* order of the mapping's (field, direction) pairs, 1 ascending and -1
\* descending; the three documents a = 3, 1, 2 come back 1, 2, 3 for {a: 1}
\* and 3, 2, 1 for {a: -1}.
C8_SortApplied ==
  \A t \in Tasks :
    Answered(t) /\ calls[t].args.sort.some =>
      /\ \A i, j \in 1..Len(calls[t].result.body) :
           i < j => Cmp(Doc(calls[t].result.body[i].id[2]),
                        Doc(calls[t].result.body[j].id[2]),
                        calls[t].args.sort.items) <= 0
      /\ server.ndocs = 3 /\ Len(calls[t].result.body) = 3 /\ calls[t].args.sort = SortAAsc =>
           AValues(calls[t].result.body) = << 1, 2, 3 >>
      /\ server.ndocs = 3 /\ Len(calls[t].result.body) = 3 /\ calls[t].args.sort = SortADesc =>
           AValues(calls[t].result.body) = << 3, 2, 1 >>

C8_Witness ==
  \E t \in Tasks :
    Answered(t) /\ calls[t].args.sort = SortADesc /\ server.ndocs = 3
      /\ AValues(calls[t].result.body) = << 3, 2, 1 >>

\* Every result a call can return when it is the only call running, against
\* the yielded context and the server's contents.
SoloResults(op, args) ==
  LET db == MONGODB_DATABASE
      outs == DriverOutcomes(server.reachable)
  IN CASE op = "list_collections" -> {list_collections_result(db, o) : o \in outs}
       [] op = "count_documents" ->
            {count_documents_result(db, server.ndocs, args, o) : o \in outs}
       [] op = "get_collection_stats" ->
            {get_collection_stats_result(db, server.ndocs, args, o) : o \in outs}
       [] op = "query_collection" ->
            IF BuildError(args) # "none" THEN {QueryExcept(BuildError(args))}
            ELSE UNION {{query_collection_result(BuildCursor(args), o, docs) :
                           docs \in Fetch(db, server.ndocs, BuildCursor(args))} : o \in outs}
       [] OTHER -> {}

\* C9: in every interleaving of the calls, each call returns a result it
\* could return running alone with the same arguments against the same
\* database contents; the shared context is never written.
C9_CallsIndependent ==
  /\ lifespan_pc = "serving" => ctx = AppContext("client", MONGODB_DATABASE)
  /\ \A t \in Tasks :
       calls[t].pc = "done" => calls[t].result \in SoloResults(calls[t].op, calls[t].args)

C9_Witness ==
  \E t, u \in Tasks :
    /\ Answered(t) /\ calls[t].result.body # << >>
    /\ Running(u, "query_collection")
    /\ calls[u].args # calls[t].args

\* C10: for skip s >= 0 and limit L > 0 an answered query lists exactly the
\* entries s+1 .. s+L (as far as they exist) of the matching documents in
\* sort order: min(L, max(0, M - s)) entries of M matching documents.
C10_SortSkipLimit ==
  \A t \in Tasks :
    Answered(t) /\ calls[t].args.skip >= 0 /\ calls[t].args.limit > 0 =>
      LET a == calls[t].args
          match == SelectSeq2(Stored(server.ndocs, a.collection), a.query.items)
          pairs == IF a.sort.some THEN a.sort.items ELSE << >>
          body == calls[t].result.body
      IN /\ Len(body) = Min(a.limit, Max(0, Len(match) - a.skip))
         /\ \E o \in Orderings(match, pairs) :
              body = json_dumps([i \in 1..Len(body) |-> Project(o[a.skip + i], a.projection)])

C10_Witness ==
  \E t \in Tasks :
    Answered(t) /\ calls[t].args.skip = 1 /\ calls[t].args.limit = 1
      /\ calls[t].args.sort = SortAAsc /\ server.ndocs = 3
      /\ AValues(calls[t].result.body) = << 2 >>

=============================================================================
